---- MODULE Spec2Model ----
(***************************************************************************)
(* Binary G-code to ASCII conversion (src/convert/convert.cpp).            *)
(*                                                                         *)
(* Text is modelled as a sequence of one-character strings, a byte payload *)
(* as a sequence of numbers 0..255.  The source stream is a sequence of    *)
(* blocks; stream offsets are counted in units: the file header, every     *)
(* block header and every block content take one unit each.                *)
(***************************************************************************)
EXTENDS Integers, Sequences, FiniteSets, TLC

VARIABLES
    container,          \* the blocks of src_file, in wire order
    pc,                 \* position in from_binary_to_ascii
    pos,                \* ftell(&src_file)
    file_size,          \* const long file_size
    block_header,       \* BlockHeader block_header
    res,                \* the value returned, once pc = "done"
    raw_data,           \* raw_data of the metadata block decoded last
    md_i,               \* position of write_metadata's loop in raw_data
    thumbnail_block,    \* ThumbnailBlock thumbnail_block
    encoded,            \* std::string encoded
    format,             \* std::string format
    data,               \* block.raw_data, the argument of remove_empty_lines
    begin_it,           \* remove_empty_lines: begin_it - data.begin()
    end_it,             \* remove_empty_lines: end_it - data.begin()
    ret,                \* remove_empty_lines: ret
    out_str,            \* const std::string out_str
    restore_position,   \* long restore_position
    ferr,               \* ferror(&dst_file)
    out,                \* the bytes dst_file holds
    out_pos,            \* ftell(&dst_file)
    ops,                \* history: every call on src_file / dst_file, in order
    trim_str,           \* trim: the argument str
    trim_view,          \* trim: the std::string_view returned
    trim_reads          \* trim: the indices i of every str[i] evaluated

vars == <<container, pc, pos, file_size, block_header, res, raw_data, md_i,
          thumbnail_block, encoded, format, data, begin_it, end_it, ret,
          out_str, restore_position, ferr, out, out_pos, ops,
          trim_str, trim_view, trim_reads>>

(***************************************************************************)
(* Bounds of the model.                                                    *)
(***************************************************************************)
MaxHead == 2        \* containers of arbitrary block types up to this length
MaxThumbs == 2      \* longest run of Thumbnail blocks after the first two blocks
MaxTail == 2        \* arbitrary block types after the thumbnail run
MaxGCode == 2       \* longest run of GCode blocks
NumVariants == 3    \* assignments of payloads to the blocks of a container
MaxGarbage == 1     \* lines read past the end of the payload before the crash
MaxLen == 5         \* longest payload of the normalization specification

(***************************************************************************)
(* Result codes and block types (core of the library; named as there).     *)
(***************************************************************************)
Success == "Success"
ReadError == "ReadError"
WriteError == "WriteError"
InvalidChecksum == "InvalidChecksum"
InvalidSequenceOfBlocks == "InvalidSequenceOfBlocks"

\* what a call of the block access layer can report on a damaged stream
BALErrors == {ReadError, InvalidChecksum}

FileMetadata == "FileMetadata"
PrinterMetadata == "PrinterMetadata"
Thumbnail == "Thumbnail"
GCode == "GCode"
PrintMetadata == "PrintMetadata"
SlicerMetadata == "SlicerMetadata"

EBlockType == {FileMetadata, PrinterMetadata, Thumbnail, GCode, PrintMetadata, SlicerMetadata}

PNG == "PNG"
JPG == "JPG"
QOI == "QOI"
OtherFormat == "OtherFormat"

(***************************************************************************)
(* Sequence helpers.                                                       *)
(***************************************************************************)
RECURSIVE Flatten(_)
Flatten(ss) == IF ss = <<>> THEN <<>> ELSE Head(ss) \o Flatten(Tail(ss))

RECURSIVE Repeat(_, _)
Repeat(x, n) == IF n = 0 THEN <<>> ELSE <<x>> \o Repeat(x, n - 1)

SeqsUpTo(S, n) == UNION {[1..k -> S] : k \in 0..n}

Drop(s, n) == SubSeq(s, n + 1, Len(s))

Take(s, n) == SubSeq(s, 1, n)

(***************************************************************************)
(* Text utilities.                                                         *)
(***************************************************************************)
IsBlank(c) == c = " " \/ c = "\t"

\* the first loop of trim passing spaces only
RECURSIVE TrimStart_spaces_only(_, _)
TrimStart_spaces_only(str, start) ==
    IF start < Len(str) - 1 /\ str[start + 1] = " "
    THEN TrimStart_spaces_only(str, start + 1)
    ELSE start

\* the first loop of trim; start is 0-based, as in the code
RECURSIVE TrimStart(_, _)
TrimStart(str, start) ==
    IF start < Len(str) - 1 /\ IsBlank(str[start + 1])
    THEN TrimStart(str, start + 1)
    ELSE start

\* the second loop of trim; end is 0-based, as in the code
RECURSIVE TrimEnd(_, _)
TrimEnd(str, end) ==
    IF end > 0 /\ IsBlank(str[end + 1])
    THEN TrimEnd(str, end - 1)
    ELSE end

trim(str) ==
    IF str = <<>> THEN <<>>
    ELSE LET start == TrimStart(str, 0)
             end == TrimEnd(str, Len(str) - 1)
         IN  IF (start = end /\ IsBlank(str[end + 1])) \/ start > end
             THEN <<>>
             ELSE SubSeq(str, start + 1, end + 1)

\* the indices i of the str[i] the first loop of trim evaluates
RECURSIVE TrimStartReads(_, _)
TrimStartReads(str, start) ==
    IF start < Len(str) - 1
    THEN {start} \cup (IF IsBlank(str[start + 1]) THEN TrimStartReads(str, start + 1) ELSE {})
    ELSE {}

\* the indices i of the str[i] the second loop of trim evaluates
RECURSIVE TrimEndReads(_, _)
TrimEndReads(str, end) ==
    IF end > 0
    THEN {end} \cup (IF IsBlank(str[end + 1]) THEN TrimEndReads(str, end - 1) ELSE {})
    ELSE {}

\* the indices i of every str[i] trim evaluates: in its loops, in the test
\* behind them and for the view it returns
TrimReads(str) ==
    IF str = <<>> THEN {}
    ELSE LET start == TrimStart(str, 0)
             end == TrimEnd(str, Len(str) - 1)
         IN  TrimStartReads(str, 0) \cup TrimEndReads(str, Len(str) - 1)
             \cup (IF start = end THEN {end} ELSE {})
             \cup (IF (start = end /\ IsBlank(str[end + 1])) \/ start > end
                   THEN {} ELSE {start})

uncomment(str) ==
    IF str # <<>> /\ str[1] = ";" THEN trim(Tail(str)) ELSE str

(***************************************************************************)
(* std::to_string of a non-negative number.                                *)
(***************************************************************************)
Digits == <<"0", "1", "2", "3", "4", "5", "6", "7", "8", "9">>

RECURSIVE to_string(_)
to_string(n) ==
    IF n < 10 THEN <<Digits[n + 1]>>
    ELSE to_string(n \div 10) \o <<Digits[(n % 10) + 1]>>

(***************************************************************************)
(* boost::beast::detail::base64, as std::string encoded is filled.         *)
(***************************************************************************)
Base64Alphabet == <<"A", "B", "C", "D", "E", "F", "G", "H", "I", "J", "K", "L", "M", "N", "O", "P", "Q", "R", "S", "T", "U", "V", "W", "X", "Y", "Z", "a", "b", "c", "d", "e", "f", "g", "h", "i", "j", "k", "l", "m", "n", "o", "p", "q", "r", "s", "t", "u", "v", "w", "x", "y", "z", "0", "1", "2", "3", "4", "5", "6", "7", "8", "9", "+", "/">>

B64(n) == Base64Alphabet[n + 1]

RECURSIVE Base64Encode(_)
Base64Encode(bytes) ==
    IF bytes = <<>> THEN <<>>
    ELSE IF Len(bytes) = 1
    THEN <<B64(bytes[1] \div 4), B64((bytes[1] % 4) * 16), "=", "=">>
    ELSE IF Len(bytes) = 2
    THEN <<B64(bytes[1] \div 4),
           B64((bytes[1] % 4) * 16 + bytes[2] \div 16),
           B64((bytes[2] % 16) * 4), "=">>
    ELSE <<B64(bytes[1] \div 4),
           B64((bytes[1] % 4) * 16 + bytes[2] \div 16),
           B64((bytes[2] % 16) * 4 + bytes[3] \div 64),
           B64(bytes[3] % 64)>> \o Base64Encode(Drop(bytes, 3))

\* a row two characters short
max_row_length_76 == 78 - 2

max_row_length == 78

(***************************************************************************)
(* Payloads the blocks of a container can carry.  A block names its        *)
(* payload by its place in the table of its type.                          *)
(***************************************************************************)
MetadataPayloads == <<
    << <<<<"L", "a", "y", "e", "r", "s">>, <<"1", "0">>>> >>,
    << <<<<"P", "r", "o", "d", "u", "c", "e", "r">>, <<"P", "S", " ", "2", ".", "6">>>>, <<<<"L", "a", "y", "e", "r", "s">>, <<"1", "0">>>> >>,
    << <<<<"L", "a", "y", "e", "r", "s">>, <<"1", "0">>>>, <<<<"P", "r", "o", "d", "u", "c", "e", "r">>, <<"A">>>>, <<<<"P", "r", "o", "d", "u", "c", "e", "r">>, <<"B">>>>, <<<<"L", "a", "y", "e", "r", "s">>, <<"1", "0">>>> >>,
    << <<<<"P", "r", "i", "n", "t", "e", "r">>, <<"X", "1">>>> >>,
    << >>,
    << <<<<"n", "o", "z", "z", "l", "e">>, <<"0", ".", "4">>>> >> >>

ThumbBytes(n) == [i \in 1..n |-> (i * 37 + 11) % 256]

ThumbnailPayloads == <<
    [format |-> PNG, width |-> 16, height |-> 16, data |-> ThumbBytes(0)],
    [format |-> JPG, width |-> 220, height |-> 124, data |-> ThumbBytes(58)],
    [format |-> QOI, width |-> 640, height |-> 480, data |-> ThumbBytes(117)],
    [format |-> OtherFormat, width |-> 1, height |-> 1, data |-> ThumbBytes(1)] >>

ExampleGCode == <<"G", "1", " ", "X", "0", "\n", ";", " ", "c", "o", "m", "m", "e", "n", "t", "\n", "\n", "G", "1", " ", "X", "1", "\n">>

GCodePayloads == <<
    << >>,
    ExampleGCode,
    <<" ", " ", " ", "\n", ";", "\n", ";", " ", " ", " ", "\n", "\t", "\n", "\n", " ", ";", " ", "\t", "\n">>,
    <<" ", "G", "1", " ", "X", "1", " ", ";", " ", "m", "o", "v", "e", " ", "\n", " ", ";", " ", "\n", ";", "x", "\n", "M", "1", "\n">>,
    <<";", "\n", "G", "1", "\n", "G", "2">> >>

Payloads(type) ==
    IF type = Thumbnail THEN ThumbnailPayloads
    ELSE IF type = GCode THEN GCodePayloads
    ELSE MetadataPayloads

Block(type, k) == [type |-> type, payload |-> (k % Len(Payloads(type))) + 1]

PayloadOf(b) == Payloads(b.type)[b.payload]

\* the blocks of the given types, the payloads chosen by the variant v
Blocks(types, v) == [i \in 1..Len(types) |-> Block(types[i], v + i)]

Variants == 0..(NumVariants - 1)

\* FileMetadata, PrinterMetadata, k Thumbnail
Preamble(k) == <<FileMetadata, PrinterMetadata>> \o Repeat(Thumbnail, k)

\* the order of blocks section 3 of the specification documents
DocumentedOrder(k, n) == Preamble(k) \o Repeat(GCode, n) \o <<PrintMetadata, SlicerMetadata>>

\* the container of the worked example of section 8 of the specification
ExampleContainer == <<
    [type |-> FileMetadata, payload |-> 1],
    [type |-> PrinterMetadata, payload |-> 4],
    [type |-> GCode, payload |-> 2],
    [type |-> PrintMetadata, payload |-> 1],
    [type |-> SlicerMetadata, payload |-> 6] >>

\* the print and slicer metadata ahead of the GCode blocks
MetadataFirst(k, n) == Preamble(k) \o <<PrintMetadata, SlicerMetadata>> \o Repeat(GCode, n)

\* a thumbnail run, one block, a run of GCode blocks and what follows it
GCodeRuns ==
    {Preamble(k) \o <<x>> \o Repeat(GCode, n) \o y :
        k \in 0..MaxThumbs, x \in EBlockType, n \in 1..MaxGCode, y \in SeqsUpTo(EBlockType, 1)}

BlockTypeSeqs ==
    SeqsUpTo(EBlockType, MaxHead)
    \cup {Preamble(k) \o t : k \in 0..MaxThumbs, t \in SeqsUpTo(EBlockType, MaxTail)}
    \cup GCodeRuns
    \cup {DocumentedOrder(k, n) : k \in 0..MaxThumbs, n \in 0..MaxGCode}
    \cup {MetadataFirst(k, n) : k \in 0..MaxThumbs, n \in 0..MaxGCode}

Containers ==
    {Blocks(t, v) : t \in BlockTypeSeqs, v \in Variants} \cup {ExampleContainer}

(***************************************************************************)
(* The stream and the block access layer.                                  *)
(***************************************************************************)
HeaderOffset(i) == 2 * i - 1

StreamSize(c) == 2 * Len(c) + 1

\* the block whose header starts at offset p, 0 when there is none
BlockStartingAt(c, p) ==
    IF \E i \in 1..Len(c) : HeaderOffset(i) = p
    THEN CHOOSE i \in 1..Len(c) : HeaderOffset(i) = p
    ELSE 0

\* the block whose content starts at offset p
BlockContentAt(c, p) == BlockStartingAt(c, p - 1)

\* read_next_block_header(file, file_header, block_header, verify_checksum)
read_next_block_header(c, p) ==
    LET i == BlockStartingAt(c, p)
    IN  IF i = 0
        THEN [r |-> ReadError, pos |-> p, header |-> [type |-> "none", size |-> 0]]
        ELSE [r |-> Success, pos |-> p + 1, header |-> [type |-> c[i].type, size |-> 1]]

\* the constrained read taken for the plain one: any type is accepted
read_next_block_header_of_any(c, p, type) == read_next_block_header(c, p)

\* read_next_block_header(file, file_header, block_header, type, verify_checksum)
read_next_block_header_of(c, p, type) ==
    LET h == read_next_block_header(c, p)
    IN  IF h.r = Success /\ h.header.type # type
        THEN [h EXCEPT !.r = InvalidSequenceOfBlocks]
        ELSE h

\* skip_block_content(file, file_header, block_header): the position after it
skip_block_content(p, header) == p + header.size

\* <Block>.read_data(file, file_header, block_header): payload and position after it
read_data(c, p, header) ==
    [payload |-> PayloadOf(c[BlockContentAt(c, p)]), pos |-> p + header.size]

(***************************************************************************)
(* The lines from_binary_to_ascii writes.                                  *)
(***************************************************************************)
\* std::find_if taken for a search of the last match
RECURSIVE find_producer_last(_)
find_producer_last(md) ==
    IF md = <<>> THEN <<"U", "n", "k", "n", "o", "w", "n">>
    ELSE IF md[Len(md)][1] = <<"P", "r", "o", "d", "u", "c", "e", "r">> THEN md[Len(md)][2]
    ELSE find_producer_last(Take(md, Len(md) - 1))

RECURSIVE find_producer(_)
find_producer(md) ==
    IF md = <<>> THEN <<"U", "n", "k", "n", "o", "w", "n">>
    ELSE IF Head(md)[1] = <<"P", "r", "o", "d", "u", "c", "e", "r">> THEN Head(md)[2]
    ELSE find_producer(Tail(md))

ProducerLine(md) == <<";", " ", "g", "e", "n", "e", "r", "a", "t", "e", "d", " ", "b", "y", " ">> \o find_producer(md) \o <<"\n", "\n", "\n">>

MetadataLine(item) == <<";", " ">> \o item[1] \o <<" ", "=", " ">> \o item[2] \o <<"\n">>

\* every format under the label of PNG
FormatName_png_only(fmt) == <<"t", "h", "u", "m", "b", "n", "a", "i", "l">>

FormatName(fmt) ==
    IF fmt = JPG THEN <<"t", "h", "u", "m", "b", "n", "a", "i", "l", "_", "J", "P", "G">>
    ELSE IF fmt = QOI THEN <<"t", "h", "u", "m", "b", "n", "a", "i", "l", "_", "Q", "O", "I">>
    ELSE <<"t", "h", "u", "m", "b", "n", "a", "i", "l">>

\* the begin line with the size of the image in place of the encoded length
ThumbnailBegin_raw_size(fmt, blk, enc) ==
    <<"\n", ";", "\n", ";", " ">> \o fmt \o <<" ", "b", "e", "g", "i", "n", " ">> \o to_string(blk.width) \o <<"x">>
        \o to_string(blk.height) \o <<" ">> \o to_string(Len(blk.data)) \o <<"\n">>

ThumbnailBegin(fmt, blk, enc) ==
    <<"\n", ";", "\n", ";", " ">> \o fmt \o <<" ", "b", "e", "g", "i", "n", " ">> \o to_string(blk.width) \o <<"x">>
        \o to_string(blk.height) \o <<" ">> \o to_string(Len(enc)) \o <<"\n">>

ThumbnailRow(chunk) == <<";", " ">> \o chunk \o <<"\n">>

ThumbnailEnd(fmt) == <<";", " ">> \o fmt \o <<" ", "e", "n", "d", "\n", ";", "\n">>

GapLine == <<"\n">>

SlicerBegin == <<"\n", ";", " ", "p", "r", "u", "s", "a", "s", "l", "i", "c", "e", "r", "_", "c", "o", "n", "f", "i", "g", " ", "=", " ", "b", "e", "g", "i", "n", "\n">>

SlicerEnd == <<";", " ", "p", "r", "u", "s", "a", "s", "l", "i", "c", "e", "r", "_", "c", "o", "n", "f", "i", "g", " ", "=", " ", "e", "n", "d", "\n", "\n">>

(***************************************************************************)
(* One pass of the outer loop of remove_empty_lines.                       *)
(***************************************************************************)
\* the inner loop: end_it moves to the next newline or to data.end()
RECURSIVE ScanLine(_, _)
ScanLine(d, e) ==
    IF e # Len(d) /\ d[e + 1] # "\n" THEN ScanLine(d, e + 1) ELSE e

\* the reduced line is kept in place of the original line
KeepLine_reduced(d, b, e, r) ==
    LET original_line == SubSeq(d, b + 1, e)
        reduced_line == uncomment(trim(original_line))
    IN  IF reduced_line # <<>> THEN r \o reduced_line \o <<"\n">> ELSE r

\* the line [b, e) of d, kept when its reduced form is not empty
KeepLine(d, b, e, r) ==
    LET original_line == SubSeq(d, b + 1, e)
        reduced_line == uncomment(trim(original_line))
    IN  IF reduced_line # <<>> THEN r \o original_line \o <<"\n">> ELSE r

\* what is read where no character of the payload is
GarbageLine == <<"?", "\n">>

(***************************************************************************)
(* The history of calls.                                                   *)
(***************************************************************************)
BalOp(fn, r) == [kind |-> "bal", fn |-> fn, at |-> pc, r |-> r]

\* a call of read_next_block_header, with the type of the header it read
HeaderOp(r, h) ==
    [kind |-> "bal", fn |-> "read_next_block_header", at |-> pc, r |-> r,
     type |-> IF r \in BALErrors THEN "none" ELSE h.header.type]

WriteOp(line, n) == [kind |-> "write", at |-> pc, line |-> line, n |-> n, r |-> IF n = Len(line) THEN Success ELSE WriteError]

SeekOp(to) == [kind |-> "seek", at |-> pc, to |-> to, r |-> Success]

(***************************************************************************)
(* State after construction: the stream is open, nothing is read yet.      *)
(***************************************************************************)
NoHeader == [type |-> "none", size |-> 0]

NoThumbnail == [format |-> PNG, width |-> 0, height |-> 0, data |-> <<>>]

Locals ==
    /\ pos = 0
    /\ file_size = 0
    /\ block_header = NoHeader
    /\ res = "none"
    /\ raw_data = <<>>
    /\ md_i = 1
    /\ thumbnail_block = NoThumbnail
    /\ encoded = <<>>
    /\ format = <<>>
    /\ begin_it = 0
    /\ end_it = 0
    /\ ret = <<>>
    /\ out_str = <<>>
    /\ restore_position = 0
    /\ ferr = FALSE
    /\ out = <<>>
    /\ out_pos = 0
    /\ ops = <<>>
    /\ trim_str = <<>>
    /\ trim_view = <<>>
    /\ trim_reads = {}

Init ==
    /\ container \in Containers
    /\ pc = "validate"
    /\ data = <<>>
    /\ Locals

(***************************************************************************)
(* Steps shared by the sections of from_binary_to_ascii.                   *)
(***************************************************************************)
Return(r) == pc' = "done" /\ res' = r

Goto(next) == pc' = next /\ res' = res

srcVars == <<pos, block_header>>

dstVars == <<ferr, out, out_pos>>

mdVars == <<raw_data, md_i>>

thVars == <<thumbnail_block, encoded, format>>

relVars == <<data, begin_it, end_it, ret, out_str>>

utilVars == <<trim_str, trim_view, trim_reads>>

\* the bytes a write of line can leave in the file: all of them, or fewer and
\* the error indicator set
Written(line) == {0, Len(line) - 1, Len(line)} \cap 0..Len(line)

\* write_line(line) with its result left unchecked
write_line_unchecked(line, next) ==
    \E n \in Written(line) :
        /\ out' = out \o Take(line, n)
        /\ out_pos' = out_pos + n
        /\ ferr' = (ferr \/ n < Len(line))
        /\ ops' = Append(ops, WriteOp(line, n))
        /\ IF next = "done" THEN Return(Success) ELSE Goto(next)

\* write_line(line), and the return of WriteError when it fails
write_line(line, next) ==
    \E n \in Written(line) :
        /\ out' = out \o Take(line, n)
        /\ out_pos' = out_pos + n
        /\ ferr' = (ferr \/ n < Len(line))
        /\ ops' = Append(ops, WriteOp(line, n))
        /\ IF ferr' THEN Return(WriteError)
           ELSE IF next = "done" THEN Return(Success)
           ELSE Goto(next)

\* write_metadata that returns after the first pair
write_metadata_first_only(next) ==
    IF md_i <= Len(raw_data) /\ md_i <= 1
    THEN /\ write_line(MetadataLine(raw_data[md_i]), pc)
         /\ md_i' = md_i + 1
         /\ UNCHANGED raw_data
    ELSE /\ IF ferr THEN Return(WriteError) ELSE Goto(next)
         /\ UNCHANGED <<dstVars, ops, mdVars>>

\* one pass of the loop of write_metadata(raw_data), or its return
write_metadata(next) ==
    IF md_i <= Len(raw_data)
    THEN /\ write_line(MetadataLine(raw_data[md_i]), pc)
         /\ md_i' = md_i + 1
         /\ UNCHANGED raw_data
    ELSE /\ IF ferr THEN Return(WriteError) ELSE Goto(next)
         /\ UNCHANGED <<dstVars, ops, mdVars>>

\* read_next_block_header without the check of the block type behind it
next_block_header_unchecked(h, typeOk, next) ==
    \E r \in {h.r} \cup BALErrors :
        /\ ops' = Append(ops, HeaderOp(r, h))
        /\ IF r = Success
           THEN /\ pos' = h.pos
                /\ block_header' = h.header
                /\ Goto(next)
           ELSE /\ Return(r)
                /\ UNCHANGED srcVars

\* a call of read_next_block_header whose result on this stream is h, the
\* check of the block type that follows it, and the return when either fails
next_block_header(h, typeOk, next) ==
    \E r \in {h.r} \cup BALErrors :
        /\ ops' = Append(ops, HeaderOp(r, h))
        /\ IF r = Success
           THEN /\ pos' = h.pos
                /\ block_header' = h.header
                /\ IF typeOk THEN Goto(next) ELSE Return(InvalidSequenceOfBlocks)
           ELSE /\ Return(r)
                /\ UNCHANGED srcVars

\* read_data of a metadata block, every failure reported as ReadError
metadata_read_data_as_read_error(next) ==
    \E r \in {Success} \cup BALErrors :
        /\ ops' = Append(ops, BalOp("read_data", r))
        /\ IF r = Success
           THEN /\ pos' = read_data(container, pos, block_header).pos
                /\ raw_data' = read_data(container, pos, block_header).payload
                /\ md_i' = 1
                /\ Goto(next)
           ELSE /\ Return(ReadError)
                /\ UNCHANGED <<pos, mdVars>>

\* a call of read_data of a metadata block
metadata_read_data(next) ==
    \E r \in {Success} \cup BALErrors :
        /\ ops' = Append(ops, BalOp("read_data", r))
        /\ IF r = Success
           THEN /\ pos' = read_data(container, pos, block_header).pos
                /\ raw_data' = read_data(container, pos, block_header).payload
                /\ md_i' = 1
                /\ Goto(next)
           ELSE /\ Return(r)
                /\ UNCHANGED <<pos, mdVars>>

\* fseek with the offset taken from the current position (SEEK_CUR)
seek_to_relative(to, next) ==
    /\ pos' = pos + to
    /\ ops' = Append(ops, SeekOp(to))
    /\ Goto(next)

\* fseek(&src_file, to, SEEK_SET)
seek_to(to, next) ==
    /\ pos' = to
    /\ ops' = Append(ops, SeekOp(to))
    /\ Goto(next)

\* the loop without its test for the end of the file
after_gcode_block_no_eof_test(p, size) == "gc_hdr"

\* behind a GCode block: the loop is left at the end of the file, the next
\* header is read otherwise
after_gcode_block(p, size) == IF p = size THEN "seek" ELSE "gc_hdr"

\* out_str written without the test for the empty text
write_out_str_unguarded(next) == write_line(out_str, next)

\* out_str is written unless it is empty
write_out_str(next) ==
    IF out_str # <<>>
    THEN write_line(out_str, next)
    ELSE Goto(next) /\ UNCHANGED <<dstVars, ops>>

(***************************************************************************)
(* from_binary_to_ascii, section by section.                               *)
(***************************************************************************)
\* is_valid_binary_gcode, then the size of the file is taken
Validate ==
    /\ pc = "validate"
    /\ \E r \in {Success} \cup BALErrors :
        IF r = Success
        THEN /\ ops' = ops \o <<BalOp("is_valid_binary_gcode", r),
                                SeekOp(StreamSize(container)), SeekOp(0)>>
             /\ file_size' = StreamSize(container)
             /\ pos' = 0
             /\ Goto("header")
        ELSE /\ ops' = Append(ops, BalOp("is_valid_binary_gcode", r))
             /\ Return(r)
             /\ UNCHANGED <<file_size, pos>>
    /\ UNCHANGED <<utilVars, container, block_header, mdVars, thVars, relVars,
                   restore_position, dstVars>>

\* read file header
ReadFileHeader ==
    /\ pc = "header"
    /\ \E r \in {Success} \cup BALErrors :
        /\ ops' = Append(ops, BalOp("read_header", r))
        /\ IF r = Success
           THEN pos' = 1 /\ Goto("fm_hdr")
           ELSE Return(r) /\ UNCHANGED pos
    /\ UNCHANGED <<utilVars, container, file_size, block_header, mdVars, thVars, relVars,
                   restore_position, dstVars>>

\* convert file metadata block
ConvertFileMetadata ==
    /\ pc \in {"fm_hdr", "fm_data", "fm_write"}
    /\ CASE pc = "fm_hdr" ->
              LET h == read_next_block_header(container, pos)
              IN  /\ next_block_header(h, h.header.type = FileMetadata, "fm_data")
                  /\ UNCHANGED <<mdVars, dstVars>>
         [] pc = "fm_data" ->
              /\ metadata_read_data("fm_write")
              /\ UNCHANGED <<block_header, dstVars>>
         [] pc = "fm_write" ->
              /\ write_line(ProducerLine(raw_data), "pm_hdr")
              /\ UNCHANGED <<srcVars, mdVars>>
    /\ UNCHANGED <<utilVars, container, file_size, thVars, relVars, restore_position>>

\* convert printer metadata block
ConvertPrinterMetadata ==
    /\ pc \in {"pm_hdr", "pm_data", "pm_write"}
    /\ CASE pc = "pm_hdr" ->
              LET h == read_next_block_header(container, pos)
              IN  /\ next_block_header(h, h.header.type = PrinterMetadata, "pm_data")
                  /\ UNCHANGED <<mdVars, dstVars>>
         [] pc = "pm_data" ->
              /\ metadata_read_data("pm_write")
              /\ UNCHANGED <<block_header, dstVars>>
         [] pc = "pm_write" ->
              /\ write_metadata("th_hdr")
              /\ UNCHANGED srcVars
    /\ UNCHANGED <<utilVars, container, file_size, thVars, relVars, restore_position>>

\* convert thumbnail blocks
ConvertThumbnails ==
    /\ pc \in {"th_hdr", "th_data", "th_begin", "th_row", "th_end"}
    /\ CASE pc = "th_hdr" ->
              LET h == read_next_block_header(container, pos)
              IN  /\ restore_position' = pos
                  /\ next_block_header(h, TRUE,
                        IF h.header.type = Thumbnail THEN "th_data" ELSE "gap")
                  /\ UNCHANGED <<thVars, dstVars>>
         [] pc = "th_data" ->
              /\ \E r \in {Success} \cup BALErrors :
                    /\ ops' = Append(ops, BalOp("read_data", r))
                    /\ IF r = Success
                       THEN LET d == read_data(container, pos, block_header)
                            IN  /\ pos' = d.pos
                                /\ thumbnail_block' = d.payload
                                /\ encoded' = Base64Encode(d.payload.data)
                                /\ format' = FormatName(d.payload.format)
                                /\ Goto("th_begin")
                       ELSE /\ Return(r)
                            /\ UNCHANGED <<pos, thVars>>
              /\ UNCHANGED <<block_header, restore_position, dstVars>>
         [] pc = "th_begin" ->
              /\ write_line(ThumbnailBegin(format, thumbnail_block, encoded),
                            IF Len(encoded) > 0 THEN "th_row" ELSE "th_end")
              /\ UNCHANGED <<srcVars, restore_position, thVars>>
         [] pc = "th_row" ->
              /\ IF Len(encoded) > max_row_length
                 THEN /\ write_line(ThumbnailRow(Take(encoded, max_row_length)), "th_row")
                      /\ encoded' = IF ferr' THEN encoded ELSE Drop(encoded, max_row_length)
                 ELSE /\ write_line(ThumbnailRow(encoded), "th_end")
                      /\ UNCHANGED encoded
              /\ UNCHANGED <<srcVars, restore_position, thumbnail_block, format>>
         [] pc = "th_end" ->
              /\ write_line(ThumbnailEnd(format), "th_hdr")
              /\ UNCHANGED <<srcVars, restore_position, thVars>>
    /\ UNCHANGED <<utilVars, container, file_size, mdVars, relVars>>

\* one pass of the outer loop of remove_empty_lines(block.raw_data), or its
\* return.  With end_it past data.end() the loop reads what lies behind the
\* payload: the build may crash there, or take what it reads for one more line.
RemoveEmptyLines ==
    /\ pc = "rel"
    /\ IF end_it = Len(data)
       THEN /\ out_str' = ret
            /\ Goto("gc_write")
            /\ UNCHANGED <<data, begin_it, end_it, ret>>
       ELSE IF end_it < Len(data)
       THEN LET e == ScanLine(data, end_it)
            IN  /\ ret' = KeepLine(data, begin_it, e, ret)
                /\ end_it' = e + 1
                /\ begin_it' = e + 1
                /\ Goto("rel")
                /\ UNCHANGED <<data, out_str>>
       ELSE \E crash \in IF end_it - Len(data) <= MaxGarbage THEN BOOLEAN ELSE {TRUE} :
                IF crash
                THEN /\ pc' = "crashed"
                     /\ UNCHANGED <<res, relVars>>
                ELSE /\ ret' = ret \o GarbageLine
                     /\ end_it' = end_it + 1
                     /\ begin_it' = end_it + 1
                     /\ Goto("rel")
                     /\ UNCHANGED <<data, out_str>>
    /\ UNCHANGED <<utilVars, container, file_size, srcVars, mdVars, thVars,
                   restore_position, dstVars, ops>>

\* convert gcode blocks
ConvertGCode ==
    /\ pc \in {"gap", "skip", "gc_first", "gc_data", "gc_write", "gc_hdr"}
    /\ CASE pc = "gap" ->
              /\ write_line(GapLine, "skip")
              /\ UNCHANGED <<srcVars, relVars>>
         [] pc = "skip" ->
              /\ \E r \in {Success} \cup BALErrors :
                    /\ ops' = Append(ops, BalOp("skip_block_content", r))
                    /\ IF r = Success
                       THEN pos' = skip_block_content(pos, block_header) /\ Goto("gc_first")
                       ELSE Return(r) /\ UNCHANGED pos
              /\ UNCHANGED <<block_header, relVars, dstVars>>
         [] pc = "gc_first" ->
              LET h == read_next_block_header_of(container, pos, GCode)
              IN  /\ next_block_header(h, TRUE,
                        IF h.header.type = GCode THEN "gc_data" ELSE "seek")
                  /\ UNCHANGED <<relVars, dstVars>>
         [] pc = "gc_data" ->
              /\ \E r \in {Success} \cup BALErrors :
                    /\ ops' = Append(ops, BalOp("read_data", r))
                    /\ IF r = Success
                       THEN LET d == read_data(container, pos, block_header)
                            IN  /\ pos' = d.pos
                                /\ data' = d.payload
                                /\ begin_it' = 0
                                /\ end_it' = 0
                                /\ ret' = <<>>
                                /\ Goto("rel")
                       ELSE /\ Return(r)
                            /\ UNCHANGED <<pos, data, begin_it, end_it, ret>>
              /\ UNCHANGED <<block_header, out_str, dstVars>>
         [] pc = "gc_write" ->
              LET next == after_gcode_block(pos, file_size)
              IN  /\ write_out_str(next)
                  /\ UNCHANGED <<srcVars, relVars>>
         [] pc = "gc_hdr" ->
              LET h == read_next_block_header(container, pos)
              IN  /\ next_block_header(h, TRUE,
                        IF h.header.type = GCode THEN "gc_data" ELSE "seek")
                  /\ UNCHANGED <<relVars, dstVars>>
    /\ UNCHANGED <<utilVars, container, file_size, mdVars, thVars, restore_position>>

\* convert print metadata block
ConvertPrintMetadata ==
    /\ pc \in {"seek", "prm_hdr", "prm_data", "prm_gap", "prm_write"}
    /\ CASE pc = "seek" ->
              /\ seek_to(restore_position, "prm_hdr")
              /\ UNCHANGED <<block_header, mdVars, dstVars>>
         [] pc = "prm_hdr" ->
              LET h == read_next_block_header(container, pos)
              IN  /\ next_block_header(h, h.header.type = PrintMetadata, "prm_data")
                  /\ UNCHANGED <<mdVars, dstVars>>
         [] pc = "prm_data" ->
              /\ metadata_read_data("prm_gap")
              /\ UNCHANGED <<block_header, dstVars>>
         [] pc = "prm_gap" ->
              /\ write_line(GapLine, "prm_write")
              /\ UNCHANGED <<srcVars, mdVars>>
         [] pc = "prm_write" ->
              /\ write_metadata("sm_hdr")
              /\ UNCHANGED srcVars
    /\ UNCHANGED <<utilVars, container, file_size, thVars, relVars, restore_position>>

\* convert slicer metadata block
ConvertSlicerMetadata ==
    /\ pc \in {"sm_hdr", "sm_data", "sm_begin", "sm_write", "sm_end"}
    /\ CASE pc = "sm_hdr" ->
              LET h == read_next_block_header(container, pos)
              IN  /\ next_block_header(h, h.header.type = SlicerMetadata, "sm_data")
                  /\ UNCHANGED <<mdVars, dstVars>>
         [] pc = "sm_data" ->
              /\ metadata_read_data("sm_begin")
              /\ UNCHANGED <<block_header, dstVars>>
         [] pc = "sm_begin" ->
              /\ write_line(SlicerBegin, "sm_write")
              /\ UNCHANGED <<srcVars, mdVars>>
         [] pc = "sm_write" ->
              /\ write_metadata("sm_end")
              /\ UNCHANGED srcVars
         [] pc = "sm_end" ->
              /\ write_line(SlicerEnd, "done")
              /\ UNCHANGED <<srcVars, mdVars>>
    /\ UNCHANGED <<utilVars, container, file_size, thVars, relVars, restore_position>>

Next ==
    \/ Validate
    \/ ReadFileHeader
    \/ ConvertFileMetadata
    \/ ConvertPrinterMetadata
    \/ ConvertThumbnails
    \/ ConvertGCode
    \/ RemoveEmptyLines
    \/ ConvertPrintMetadata
    \/ ConvertSlicerMetadata

Spec == Init /\ [][Next]_vars

(***************************************************************************)
(* remove_empty_lines alone, on every payload over a small alphabet.       *)
(***************************************************************************)
Alphabet == {" ", "\t", ";", "G", "\n"}

InitNorm ==
    /\ container = <<>>
    /\ pc = "rel"
    /\ data \in SeqsUpTo(Alphabet, MaxLen) \cup {GCodePayloads[i] : i \in 1..Len(GCodePayloads)}
    /\ Locals

NextNorm == RemoveEmptyLines

SpecNorm == InitNorm /\ [][NextNorm]_vars

(***************************************************************************)
(* from_ascii_to_binary on a text file and a binary file in any state.     *)
(***************************************************************************)
\* the call with the binary file rewound
from_ascii_to_binary_rewinding ==
    /\ pc = "a2b"
    /\ Return(Success)
    /\ pos' = 0
    /\ UNCHANGED <<utilVars, container, file_size, block_header, mdVars, thVars,
                   relVars, restore_position, dstVars, ops>>

from_ascii_to_binary ==
    /\ pc = "a2b"
    /\ Return(Success)
    /\ UNCHANGED <<utilVars, container, file_size, srcVars, mdVars, thVars,
                   relVars, restore_position, dstVars, ops>>

\* src_file is the text file (out, out_pos, ferr), dst_file the binary file
\* (container, pos)
InitA2B ==
    /\ pc = "a2b"
    /\ res = "none"
    /\ container \in {c \in Containers : Len(c) <= MaxHead}
    /\ pos \in 0..StreamSize(container)
    /\ out \in {GCodePayloads[i] : i \in 1..Len(GCodePayloads)}
    /\ out_pos \in {0, Len(out)}
    /\ ferr \in BOOLEAN
    /\ ops = <<>>
    /\ file_size = 0
    /\ block_header = NoHeader
    /\ raw_data = <<>>
    /\ md_i = 1
    /\ thumbnail_block = NoThumbnail
    /\ encoded = <<>>
    /\ format = <<>>
    /\ data = <<>>
    /\ begin_it = 0
    /\ end_it = 0
    /\ ret = <<>>
    /\ out_str = <<>>
    /\ restore_position = 0
    /\ trim_str = <<>>
    /\ trim_view = <<>>
    /\ trim_reads = {}

NextA2B == from_ascii_to_binary

SpecA2B == InitA2B /\ [][NextA2B]_vars

(***************************************************************************)
(* trim alone, on every string over a small alphabet.                      *)
(***************************************************************************)
Trim ==
    /\ pc = "trim"
    /\ trim_view' = trim(trim_str)
    /\ trim_reads' = TrimReads(trim_str)
    /\ Goto("done")
    /\ UNCHANGED <<trim_str, container, file_size, srcVars, mdVars, thVars,
                   relVars, restore_position, dstVars, ops>>

TrimAlphabet == {" ", "\t", "G", ";"}

InitTrim ==
    /\ pc = "trim"
    /\ trim_str \in SeqsUpTo(TrimAlphabet, MaxLen)
    /\ trim_view = <<>>
    /\ trim_reads = {}
    /\ container = <<>>
    /\ data = <<>>
    /\ pos = 0
    /\ file_size = 0
    /\ block_header = NoHeader
    /\ res = "none"
    /\ raw_data = <<>>
    /\ md_i = 1
    /\ thumbnail_block = NoThumbnail
    /\ encoded = <<>>
    /\ format = <<>>
    /\ begin_it = 0
    /\ end_it = 0
    /\ ret = <<>>
    /\ out_str = <<>>
    /\ restore_position = 0
    /\ ferr = FALSE
    /\ out = <<>>
    /\ out_pos = 0
    /\ ops = <<>>

NextTrim == Trim

SpecTrim == InitTrim /\ [][NextTrim]_vars

(***************************************************************************)
(* What the properties below read from a state.                            *)
(***************************************************************************)
TypesOf(c) == [i \in 1..Len(c) |-> c[i].type]

\* no call failed on the way: the container is well formed and the sink works
NoFault == \A i \in 1..Len(ops) : ops[i].r \in {Success, InvalidSequenceOfBlocks}

IsWrite(op) == op.kind = "write"

\* the indices in ops of the writes that went through
WriteIdx == {i \in 1..Len(ops) : IsWrite(ops[i]) /\ ops[i].r = Success}

\* the lines written so far, in order
Lines == [i \in 1..Len(SelectSeq(ops, IsWrite)) |-> SelectSeq(ops, IsWrite)[i].line]

HasPrefix(s, p) == Len(s) >= Len(p) /\ Take(s, Len(p)) = p

HasSuffix(s, p) == Len(s) >= Len(p) /\ Drop(s, Len(s) - Len(p)) = p

Contains(s, p) == \E i \in 0..(Len(s) - Len(p)) : SubSeq(s, i + 1, i + Len(p)) = p

\* a line is without content: blanks only, or blanks around one ";"
Vestigial(l) ==
    LET inked == {i \in 1..Len(l) : l[i] # " " /\ l[i] # "\t"}
    IN  inked = {} \/ (\E j \in 1..Len(l) : inked = {j} /\ l[j] = ";")

Terminated(d) == d = <<>> \/ d[Len(d)] = "\n"

\* the lines of a payload in which every line ends with a newline, last line first
RECURSIVE LinesOf(_)
LinesOf(d) ==
    IF d = <<>> THEN <<>>
    ELSE LET body == Take(d, Len(d) - 1)
             nl == {i \in 1..Len(body) : body[i] = "\n"}
             p == IF nl = {} THEN 0 ELSE CHOOSE i \in nl : \A j \in nl : j <= i
         IN  Append(LinesOf(Take(d, p)), SubSeq(body, p + 1, Len(body)))

\* the text of a payload without its vestigial lines
RECURSIVE Significant(_)
Significant(ls) ==
    IF ls = <<>> THEN <<>>
    ELSE (IF Vestigial(Head(ls)) THEN <<>> ELSE Head(ls) \o <<"\n">>) \o Significant(Tail(ls))

Normalized(d) == Significant(LinesOf(d))

\* the value of the first pair with the key Producer
ProducerOf(md) ==
    LET at == {i \in 1..Len(md) : md[i][1] = <<"P", "r", "o", "d", "u", "c", "e", "r">>}
    IN  IF at = {} THEN <<"U", "n", "k", "n", "o", "w", "n">>
        ELSE md[CHOOSE i \in at : \A j \in at : i <= j][2]

CommentLines(md) == [i \in 1..Len(md) |-> <<";", " ">> \o md[i][1] \o <<" ", "=", " ">> \o md[i][2] \o <<"\n">>]

\* the length of the run of Thumbnail blocks after the first two blocks
RECURSIVE ThumbRun(_, _)
ThumbRun(c, i) ==
    IF i <= Len(c) /\ c[i].type = Thumbnail THEN 1 + ThumbRun(c, i + 1) ELSE 0

\* the text of the GCode blocks i, i + 1, ... of c
RECURSIVE GCodeText(_, _)
GCodeText(c, i) ==
    IF i <= Len(c) /\ c[i].type = GCode
    THEN Normalized(PayloadOf(c[i])) \o GCodeText(c, i + 1)
    ELSE <<>>

\* what section 8 of the specification expects for a container in the documented
\* order without thumbnails
DocumentedOutput(c) ==
    <<";", " ", "g", "e", "n", "e", "r", "a", "t", "e", "d", " ", "b", "y", " ">> \o ProducerOf(PayloadOf(c[1])) \o <<"\n", "\n", "\n">>
    \o Flatten(CommentLines(PayloadOf(c[2])))
    \o <<"\n">>
    \o GCodeText(c, 3)
    \o <<"\n">> \o Flatten(CommentLines(PayloadOf(c[Len(c) - 1])))
    \o <<"\n", ";", " ", "p", "r", "u", "s", "a", "s", "l", "i", "c", "e", "r", "_", "c", "o", "n", "f", "i", "g", " ", "=", " ", "b", "e", "g", "i", "n", "\n">>
    \o Flatten(CommentLines(PayloadOf(c[Len(c)])))
    \o <<";", " ", "p", "r", "u", "s", "a", "s", "l", "i", "c", "e", "r", "_", "c", "o", "n", "f", "i", "g", " ", "=", " ", "e", "n", "d", "\n", "\n">>

InDocumentedOrder(c, k) ==
    \E n \in 0..Len(c) : TypesOf(c) = DocumentedOrder(k, n)

(***************************************************************************)
(* C1: for every well-formed container in the documented order without     *)
(* thumbnails the conversion returns Success and the output is the         *)
(* producer line, the printer metadata lines, a gap line, the normalized   *)
(* GCode text, the print metadata block and the slicer metadata block.     *)
(* The code does not do this: see C1_DocumentedOrderRejected.              *)
(***************************************************************************)
C1_DocumentedOrderConverts ==
    (pc = "done" /\ NoFault /\ InDocumentedOrder(container, 0))
        => (res = Success /\ out = DocumentedOutput(container))

\* what the code does with these containers: the block at the resume offset is
\* skipped, the constrained read or the read after the seek meets the wrong
\* type, and the metadata blocks are never written
C1_DocumentedOrderRejected ==
    (pc = "done" /\ NoFault /\ InDocumentedOrder(container, 0))
        => /\ res = InvalidSequenceOfBlocks
           /\ out = <<";", " ", "g", "e", "n", "e", "r", "a", "t", "e", "d", " ", "b", "y", " ">> \o ProducerOf(PayloadOf(container[1])) \o <<"\n", "\n", "\n">>
                    \o Flatten(CommentLines(PayloadOf(container[2])))
                    \o <<"\n">>
                    \o GCodeText(container, 4)

(***************************************************************************)
(* C3: the worked example: no Producer key, printer metadata (Printer, X1),*)
(* one GCode block "G1 X0", "; comment", "", "G1 X1", print metadata       *)
(* (Layers, 10), slicer metadata (nozzle, 0.4) converts with Success to    *)
(* the text of ExampleOutput.  The code does not do this.                  *)
(***************************************************************************)
ExampleOutput == <<";", " ", "g", "e", "n", "e", "r", "a", "t", "e", "d", " ", "b", "y", " ", "U", "n", "k", "n", "o", "w", "n", "\n", "\n", "\n", ";", " ", "P", "r", "i", "n", "t", "e", "r", " ", "=", " ", "X", "1", "\n", "\n", "G", "1", " ", "X", "0", "\n", "G", "1", " ", "X", "1", "\n", "\n", "\n", ";", " ", "L", "a", "y", "e", "r", "s", " ", "=", " ", "1", "0", "\n", "\n", ";", " ", "p", "r", "u", "s", "a", "s", "l", "i", "c", "e", "r", "_", "c", "o", "n", "f", "i", "g", " ", "=", " ", "b", "e", "g", "i", "n", "\n", ";", " ", "n", "o", "z", "z", "l", "e", " ", "=", " ", "0", ".", "4", "\n", ";", " ", "p", "r", "u", "s", "a", "s", "l", "i", "c", "e", "r", "_", "c", "o", "n", "f", "i", "g", " ", "=", " ", "e", "n", "d", "\n", "\n">>

C3_ExampleConverts ==
    (pc = "done" /\ NoFault /\ container = ExampleContainer)
        => (res = Success /\ out = ExampleOutput)

\* what the code does with the example
C3_ExampleRejected ==
    (pc = "done" /\ NoFault /\ container = ExampleContainer)
        => (res = InvalidSequenceOfBlocks /\ out = <<";", " ", "g", "e", "n", "e", "r", "a", "t", "e", "d", " ", "b", "y", " ", "U", "n", "k", "n", "o", "w", "n", "\n", "\n", "\n", ";", " ", "P", "r", "i", "n", "t", "e", "r", " ", "=", " ", "X", "1", "\n", "\n">>)

(***************************************************************************)
(* Thumbnail framings, read back from the lines written.                   *)
(***************************************************************************)
\* the lines of the writes that went through, in order
GoodLines ==
    LET IsGood(op) == IsWrite(op) /\ op.r = Success
        w == SelectSeq(ops, IsGood)
    IN  [i \in 1..Len(w) |-> w[i].line]

IsBeginLine(l) == HasPrefix(l, <<"\n", ";", "\n", ";", " ", "t", "h", "u", "m", "b", "n", "a", "i", "l">>) /\ Contains(l, <<" ", "b", "e", "g", "i", "n", " ">>)

IsEndLine(l) == HasPrefix(l, <<";", " ", "t", "h", "u", "m", "b", "n", "a", "i", "l">>) /\ HasSuffix(l, <<" ", "e", "n", "d", "\n", ";", "\n">>)

\* the framings of ls from line i on; open: line i is inside the last framing of acc
RECURSIVE Framings(_, _, _, _)
Framings(ls, i, open, acc) ==
    IF i > Len(ls) THEN acc
    ELSE IF ~open
    THEN IF IsBeginLine(ls[i])
         THEN Framings(ls, i + 1, TRUE,
                  Append(acc, [begin |-> ls[i], rows |-> <<>>, closed |-> FALSE,
                               first |-> i, last |-> i]))
         ELSE Framings(ls, i + 1, FALSE, acc)
    ELSE LET n == Len(acc)
         IN  IF IsEndLine(ls[i])
             THEN Framings(ls, i + 1, FALSE,
                      [acc EXCEPT ![n].closed = TRUE, ![n].last = i])
             ELSE Framings(ls, i + 1, TRUE,
                      [acc EXCEPT ![n].rows = Append(@, ls[i]), ![n].last = i])

DigitValue(c) == CHOOSE d \in 0..9 : Digits[d + 1] = c

RECURSIVE Number(_)
Number(ds) ==
    IF ds = <<>> THEN 0
    ELSE 10 * Number(Take(ds, Len(ds) - 1)) + DigitValue(ds[Len(ds)])

\* the <encoded_length> of a begin line: the digits between its last space and
\* its newline
DeclaredLength(l) ==
    LET body == Take(l, Len(l) - 1)
        sp == CHOOSE i \in 1..Len(body) :
                 body[i] = " " /\ \A j \in (i + 1)..Len(body) : body[j] # " "
    IN  Number(Drop(body, sp))

IsRow(l) == HasPrefix(l, <<";", " ">>) /\ HasSuffix(l, <<"\n">>) /\ Len(l) > 3

RECURSIVE RowChars(_)
RowChars(rows) ==
    IF rows = <<>> THEN 0 ELSE (Len(Head(rows)) - 3) + RowChars(Tail(rows))

StartsWithPreamble(c) ==
    Len(c) >= 2 /\ c[1].type = FileMetadata /\ c[2].type = PrinterMetadata

\* the thumbnail loop has ended with the header of another block
ThumbnailsLeft == pc = "gap" \/ \E i \in 1..Len(ops) : ops[i].at = "gap"

(***************************************************************************)
(* C2: with k Thumbnail blocks after PrinterMetadata the output holds      *)
(* exactly k framings (begin line, rows, end line), one after the other    *)
(* right behind the printer metadata lines and before the gap line, in     *)
(* wire order, and the length a begin line declares is the number of       *)
(* characters of the rows of its framing.                                  *)
(***************************************************************************)
C2_ThumbnailFramings ==
    LET F == Framings(GoodLines, 1, FALSE, <<>>)
        k == IF StartsWithPreamble(container) THEN ThumbRun(container, 3) ELSE 0
    IN  /\ Len(F) <= k
        /\ \A j \in 1..Len(F) :
              LET t == PayloadOf(container[2 + j])
              IN  /\ Contains(F[j].begin, <<" ", "b", "e", "g", "i", "n", " ">> \o to_string(t.width) \o <<"x">>
                                          \o to_string(t.height) \o <<" ">>)
                  /\ F[j].first = IF j = 1 THEN 2 + Len(PayloadOf(container[2]))
                                  ELSE F[j - 1].last + 1
                  /\ \A r \in 1..Len(F[j].rows) : IsRow(F[j].rows[r])
                  /\ F[j].closed => DeclaredLength(F[j].begin) = RowChars(F[j].rows)
                  /\ j < Len(F) => F[j].closed
        /\ ThumbnailsLeft =>
              /\ Len(F) = k
              /\ \A j \in 1..k : F[j].closed
              /\ (k >= 1 /\ Len(GoodLines) > F[k].last) => GoodLines[F[k].last + 1] = GapLine

\* two thumbnails are framed, one of them over several rows, and the loop is left
C2_Witness ==
    /\ pc = "gap"
    /\ StartsWithPreamble(container)
    /\ ThumbRun(container, 3) = 2
    /\ LET F == Framings(GoodLines, 1, FALSE, <<>>)
       IN  /\ Len(F) = 2
           /\ F[2].closed
           /\ Len(F[2].rows) >= 2
           /\ DeclaredLength(F[2].begin) > max_row_length

(***************************************************************************)
(* C4: where a block type is required (FileMetadata, PrinterMetadata,      *)
(* GCode at the constrained read, PrintMetadata at the resume offset,      *)
(* SlicerMetadata behind it), a header of another type ends the call with  *)
(* InvalidSequenceOfBlocks, and it is the last call made: nothing is       *)
(* decoded and nothing is written after it.                                *)
(***************************************************************************)
Required(at) ==
    CASE at = "fm_hdr" -> FileMetadata
      [] at = "pm_hdr" -> PrinterMetadata
      [] at = "gc_first" -> GCode
      [] at = "prm_hdr" -> PrintMetadata
      [] at = "sm_hdr" -> SlicerMetadata
      [] OTHER -> "any"

\* the call i read the header of a block that is not of the type required there
Misplaced(i) ==
    /\ ops[i].kind = "bal"
    /\ ops[i].fn = "read_next_block_header"
    /\ Required(ops[i].at) # "any"
    /\ ops[i].type \notin {"none", Required(ops[i].at)}

C4_WrongTypeIsSequenceError ==
    \A i \in 1..Len(ops) :
        Misplaced(i) => /\ i = Len(ops)
                        /\ pc = "done"
                        /\ res = InvalidSequenceOfBlocks

\* the block at the resume offset is read again after the seek and is no
\* PrintMetadata block
C4_Witness ==
    /\ pc = "done"
    /\ res = InvalidSequenceOfBlocks
    /\ Misplaced(Len(ops))
    /\ ops[Len(ops)].at = "prm_hdr"
    /\ out # <<>>

(***************************************************************************)
(* C5: a call of the block access layer that does not return Success is    *)
(* the last call of the run, and its result is what from_binary_to_ascii   *)
(* returns.                                                                *)
(***************************************************************************)
C5_FirstFailureReturned ==
    \A i \in 1..Len(ops) :
        (ops[i].kind = "bal" /\ ops[i].r # Success)
            => /\ i = Len(ops)
               /\ pc = "done"
               /\ res = ops[i].r

\* the payload of a GCode block cannot be read: the checksum error is returned
C5_Witness ==
    /\ pc = "done"
    /\ res = InvalidChecksum
    /\ Len(ops) > 0
    /\ ops[Len(ops)].kind = "bal"
    /\ ops[Len(ops)].fn = "read_data"
    /\ ops[Len(ops)].at = "gc_data"
    /\ ops[Len(ops)].r = InvalidChecksum

(***************************************************************************)
(* C6: a write that fails is the last call of the run, and the run returns *)
(* WriteError.                                                             *)
(***************************************************************************)
C6_WriteFailureReturned ==
    /\ \A i \in 1..Len(ops) :
          (IsWrite(ops[i]) /\ ops[i].r # Success)
              => /\ i = Len(ops)
                 /\ pc = "done"
                 /\ res = WriteError
    /\ ferr => (pc = "done" /\ res = WriteError)

\* the text of a GCode block is written in part only
C6_Witness ==
    /\ pc = "done"
    /\ res = WriteError
    /\ Len(ops) > 0
    /\ IsWrite(ops[Len(ops)])
    /\ ops[Len(ops)].at = "gc_write"
    /\ ops[Len(ops)].n < Len(ops[Len(ops)].line)
    /\ ops[Len(ops)].n > 0

(***************************************************************************)
(* C7: remove_empty_lines returns the lines of the payload that are not    *)
(* vestigial, in their order, each as it stands in the payload and         *)
(* followed by one newline; a line of blanks, ";" or ";" with blanks       *)
(* around it is not among them.                                            *)
(***************************************************************************)
C7_NormalizationKeepsSignificantLines ==
    pc = "gc_write" =>
        /\ Terminated(data)
        /\ out_str = Normalized(data)
        /\ \A i \in 1..Len(LinesOf(data)) :
              LET l == LinesOf(data)[i]
              IN  (uncomment(trim(l)) = <<>>) <=> Vestigial(l)

\* a payload with a vestigial line between two lines that are kept, the second
\* with blanks around it and a comment behind it
C7_Witness ==
    /\ pc = "gc_write"
    /\ data = <<" ", "G", "1", " ", "X", "1", " ", ";", " ", "m", "o", "v", "e", " ", "\n", " ", ";", " ", "\n", ";", "x", "\n", "M", "1", "\n">>
    /\ out_str = <<" ", "G", "1", " ", "X", "1", " ", ";", " ", "m", "o", "v", "e", " ", "\n", ";", "x", "\n", "M", "1", "\n">>

(***************************************************************************)
(* C8: after a GCode block whose lines are all vestigial nothing is        *)
(* written, not even an empty text, and the conversion goes on with the    *)
(* end-of-file test.                                                       *)
(***************************************************************************)
AllVestigial(d) ==
    /\ d # <<>>
    /\ Terminated(d)
    /\ \A i \in 1..Len(LinesOf(d)) : Vestigial(LinesOf(d)[i])

C8_NoWriteForVestigialBlock ==
    [][(pc = "gc_write" /\ AllVestigial(data))
          => /\ ops' = ops
             /\ out' = out
             /\ pc' = IF pos = file_size THEN "seek" ELSE "gc_hdr"]_vars

\* the block decoded last held vestigial lines only; the call before this
\* state is its read_data, and the loop goes on to the next header
C8_Witness ==
    /\ pc = "gc_hdr"
    /\ AllVestigial(data)
    /\ Len(ops) > 0
    /\ ops[Len(ops)].kind = "bal"
    /\ ops[Len(ops)].fn = "read_data"
    /\ ops[Len(ops)].at = "gc_data"

(***************************************************************************)
(* C9: the first line written is "; generated by <producer>" and two empty *)
(* lines, <producer> being the value of the first pair of the file         *)
(* metadata with the key Producer, and Unknown when there is none.         *)
(***************************************************************************)
C9_ProducerLineFirst ==
    Len(Lines) >= 1 =>
        /\ Lines[1] = <<";", " ", "g", "e", "n", "e", "r", "a", "t", "e", "d", " ", "b", "y", " ">> \o ProducerOf(PayloadOf(container[1])) \o <<"\n", "\n", "\n">>
        /\ WriteIdx # {} => HasPrefix(out, Lines[1])

\* the file metadata hold two pairs with the key Producer behind another pair
C9_Witness ==
    /\ pc = "pm_hdr"
    /\ Len(container) >= 1
    /\ container[1].type = FileMetadata
    /\ container[1].payload = 3
    /\ out = <<";", " ", "g", "e", "n", "e", "r", "a", "t", "e", "d", " ", "b", "y", " ", "A", "\n", "\n", "\n">>

(***************************************************************************)
(* C10: a metadata block is written as one line "; <key> = <value>" per    *)
(* pair, in the order of the pairs, duplicates included, and an empty      *)
(* block as no line.                                                       *)
(***************************************************************************)
\* the lines written at the position at, in order
LinesAt(at) ==
    LET Here(op) == IsWrite(op) /\ op.at = at
        w == SelectSeq(ops, Here)
    IN  [i \in 1..Len(w) |-> w[i].line]

Reached(at) == pc = at \/ \E i \in 1..Len(ops) : ops[i].at = at

\* the lines at the position at are the first lines of the block b, and all of
\* them once the position after is reached
WrittenAsPairs(at, b, after) ==
    LET w == LinesAt(at)
        e == CommentLines(PayloadOf(b))
    IN  /\ Len(w) <= Len(e)
        /\ w = Take(e, Len(w))
        /\ Reached(after) => w = e

C10_OneLinePerPair ==
    /\ LinesAt("pm_write") # <<>> \/ Reached("th_hdr")
          => WrittenAsPairs("pm_write", container[2], "th_hdr")
    /\ LinesAt("prm_write") # <<>> \/ Reached("sm_hdr")
          => WrittenAsPairs("prm_write",
                 container[BlockStartingAt(container, restore_position)], "sm_hdr")
    /\ LinesAt("sm_write") # <<>> \/ Reached("sm_end")
          => WrittenAsPairs("sm_write",
                 container[BlockStartingAt(container, restore_position) + 1], "sm_end")

\* printer metadata of four pairs, two keys twice, are written and the print
\* metadata as well
C10_Witness ==
    /\ Reached("sm_hdr")
    /\ container[2].payload = 3
    /\ Len(LinesAt("pm_write")) = 4
    /\ Len(LinesAt("prm_write")) >= 1

(***************************************************************************)
(* C11: the body of a thumbnail framing is the encoded text E of the       *)
(* payload of its block cut into lines "; " + chunk + newline: ceil(L/78)  *)
(* lines for L characters, every chunk but the last of 78 characters, the  *)
(* last of 1 to 78, the chunks in order making up E; no line for L = 0.    *)
(***************************************************************************)
\* the framings written so far
WrittenFramings == Framings(GoodLines, 1, FALSE, <<>>)

\* the chunk a body line carries
ChunkOf(row) == SubSeq(row, 3, Len(row) - 1)

ChunksOf(rows) == Flatten([r \in 1..Len(rows) |-> ChunkOf(rows[r])])

C11_ThumbnailBodyWrapped ==
    \A j \in 1..Len(WrittenFramings) :
        LET E == Base64Encode(PayloadOf(container[2 + j]).data)
            rows == WrittenFramings[j].rows
            n == Len(rows)
        IN  /\ \A r \in 1..n :
                  /\ HasPrefix(rows[r], <<";", " ">>)
                  /\ HasSuffix(rows[r], <<"\n">>)
                  /\ ~Contains(ChunkOf(rows[r]), <<"\n">>)
                  /\ Len(ChunkOf(rows[r])) \in 1..78
                  /\ r < n => Len(ChunkOf(rows[r])) = 78
            /\ HasPrefix(E, ChunksOf(rows))
            /\ WrittenFramings[j].closed =>
                  /\ ChunksOf(rows) = E
                  /\ n = (Len(E) + 77) \div 78

\* the second thumbnail is encoded in 156 characters: two full lines and no
\* third one
C11_Witness ==
    /\ pc = "th_hdr"
    /\ Len(WrittenFramings) = 2
    /\ WrittenFramings[2].closed
    /\ Len(Base64Encode(PayloadOf(container[4]).data)) = 156
    /\ Len(WrittenFramings[2].rows) = 2
    /\ Len(ChunkOf(WrittenFramings[2].rows[2])) = 78

\* a thumbnail without data is framed by its two markers alone
C11_EmptyBodyReached ==
    /\ Len(WrittenFramings) >= 1
    /\ WrittenFramings[1].closed
    /\ PayloadOf(container[3]).data = <<>>
    /\ WrittenFramings[1].rows = <<>>
    /\ WrittenFramings[1].last = WrittenFramings[1].first + 1

(***************************************************************************)
(* C12: the label of a framing is "thumbnail" for PNG, "thumbnail_JPG"     *)
(* for JPG, "thumbnail_QOI" for QOI and "thumbnail" for any other format,  *)
(* and the end marker carries the label of the begin marker.               *)
(***************************************************************************)
LabelOf(fmt) ==
    CASE fmt = PNG -> <<"t", "h", "u", "m", "b", "n", "a", "i", "l">>
      [] fmt = JPG -> <<"t", "h", "u", "m", "b", "n", "a", "i", "l", "_", "J", "P", "G">>
      [] fmt = QOI -> <<"t", "h", "u", "m", "b", "n", "a", "i", "l", "_", "Q", "O", "I">>
      [] OTHER -> <<"t", "h", "u", "m", "b", "n", "a", "i", "l">>

C12_FramingLabels ==
    \A j \in 1..Len(WrittenFramings) :
        LET label == LabelOf(PayloadOf(container[2 + j]).format)
        IN  /\ HasPrefix(WrittenFramings[j].begin, <<"\n", ";", "\n", ";", " ">> \o label \o <<" ", "b", "e", "g", "i", "n", " ">>)
            /\ WrittenFramings[j].closed =>
                  GoodLines[WrittenFramings[j].last] = <<";", " ">> \o label \o <<" ", "e", "n", "d", "\n", ";", "\n">>

\* a JPG thumbnail and a QOI thumbnail are framed, each under its own label
C12_Witness ==
    /\ Len(WrittenFramings) = 2
    /\ WrittenFramings[2].closed
    /\ PayloadOf(container[3]).format = JPG
    /\ PayloadOf(container[4]).format = QOI
    /\ Contains(out, <<";", " ", "t", "h", "u", "m", "b", "n", "a", "i", "l", "_", "J", "P", "G", " ", "e", "n", "d", "\n", ";", "\n", "\n", ";", "\n", ";", " ", "t", "h", "u", "m", "b", "n", "a", "i", "l", "_", "Q", "O", "I", " ", "b", "e", "g", "i", "n", " ", "6", "4", "0", "x", "4", "8", "0", " ", "1", "5", "6", "\n">>)
    /\ HasSuffix(out, <<";", " ", "t", "h", "u", "m", "b", "n", "a", "i", "l", "_", "Q", "O", "I", " ", "e", "n", "d", "\n", ";", "\n">>)

(***************************************************************************)
(* C13: from_binary_to_ascii returns Success only for a container whose    *)
(* blocks are FileMetadata, PrinterMetadata, Thumbnail*, GCode*,           *)
(* PrintMetadata, SlicerMetadata; for a container of any other order it    *)
(* returns another result.                                                 *)
(***************************************************************************)
IsDocumented(c) ==
    \E k \in 0..Len(c), n \in 0..Len(c) : TypesOf(c) = DocumentedOrder(k, n)

C13_SuccessOnlyInOrder ==
    pc = "done" =>
        /\ res = Success => IsDocumented(container)
        /\ ~IsDocumented(container) => res \in {ReadError, WriteError, InvalidChecksum,
                                                InvalidSequenceOfBlocks}

\* the GCode blocks behind the slicer metadata: the skip passes the print
\* metadata, and the constrained read meets the slicer metadata
C13_Witness ==
    /\ pc = "done"
    /\ NoFault
    /\ TypesOf(container) = MetadataFirst(1, 2)
    /\ res = InvalidSequenceOfBlocks
    /\ ops[Len(ops)].at = "gc_first"
    /\ ops[Len(ops)].type = SlicerMetadata

(***************************************************************************)
(* C14: from_ascii_to_binary returns Success and leaves both files as they *)
(* are: no call on either of them, their bytes, their positions and the    *)
(* error indicator unchanged.                                              *)
(***************************************************************************)
C14_AsciiToBinaryLeavesFiles ==
    [][pc = "a2b" => /\ pc' = "done"
                     /\ res' = Success
                     /\ container' = container
                     /\ pos' = pos
                     /\ out' = out
                     /\ out_pos' = out_pos
                     /\ ferr' = ferr
                     /\ ops' = ops]_vars

\* the call has returned with both files in the middle of their data
C14_Witness ==
    /\ pc = "done"
    /\ res = Success
    /\ ops = <<>>
    /\ Len(container) = 2
    /\ pos = 3
    /\ out = ExampleGCode
    /\ out_pos = Len(out)

(***************************************************************************)
(* C15: once the thumbnail loop is left, restore_position is the offset of *)
(* the header of the first block after PrinterMetadata that is no          *)
(* Thumbnail, and stays so through the skip, the constrained read and the  *)
(* GCode loop; the stream is moved back once, after the GCode loop, to     *)
(* that offset, and the header read next is the header of that block.      *)
(***************************************************************************)
\* the first block after PrinterMetadata that is no Thumbnail
ResumeBlock == 3 + ThumbRun(container, 3)

\* the calls of fseek(&src_file, restore_position, SEEK_SET)
SeekIdx == {i \in 1..Len(ops) : ops[i].kind = "seek" /\ ops[i].at = "seek"}

InGCodeSection(at) == at \in {"gap", "skip", "gc_first", "gc_data", "gc_write", "gc_hdr"}

C15_ResumeOffsetKept ==
    /\ ThumbnailsLeft =>
          /\ ResumeBlock <= Len(container)
          /\ restore_position = HeaderOffset(ResumeBlock)
    /\ Cardinality(SeekIdx) <= 1
    /\ \A i \in SeekIdx :
          /\ ops[i].to = HeaderOffset(ResumeBlock)
          /\ \A j \in 1..Len(ops) : InGCodeSection(ops[j].at) => j < i
          /\ ops[i - 1].at \in {"gc_data", "gc_write", "gc_hdr"}
          /\ ops[i - 1].at = "gc_hdr" => ops[i - 1].type \notin {"none", GCode}
          /\ i < Len(ops) =>
                /\ ops[i + 1].at = "prm_hdr"
                /\ ops[i + 1].fn = "read_next_block_header"
                /\ ops[i + 1].type \in {"none", container[ResumeBlock].type}
    /\ pc = "prm_hdr" => pos = HeaderOffset(ResumeBlock)

\* behind one thumbnail a PrintMetadata block and two GCode blocks: the first
\* is met by the constrained read, the second in the loop, and the header of
\* the PrintMetadata block is read again after the seek
C15_Witness ==
    /\ pc = "prm_data"
    /\ TypesOf(container) = <<FileMetadata, PrinterMetadata, Thumbnail, PrintMetadata, GCode, GCode>>
    /\ restore_position = 7
    /\ SeekIdx # {}
    /\ block_header.type = PrintMetadata
    /\ pos = 8

(***************************************************************************)
(* C16: behind a decoded GCode block the loop ends when the stream stands  *)
(* at the end of the container: no header is read, no result is set, and   *)
(* the seek to the resume offset is next.  Before the end exactly one      *)
(* header is read, and the loop goes on iff it is the header of a GCode    *)
(* block.                                                                  *)
(***************************************************************************)
\* the calls the step has added to the history
NewOps == SubSeq(ops', Len(ops) + 1, Len(ops'))

C16_GCodeLoopEnd ==
    [][/\ (pc = "gc_write" /\ pc' # "done") =>
             /\ \A i \in 1..Len(NewOps) : NewOps[i].kind = "write"
             /\ pos' = pos
             /\ res' = res
             /\ pc' = IF pos = file_size THEN "seek" ELSE "gc_hdr"
       /\ pc = "gc_hdr" =>
             /\ pos < file_size
             /\ Len(NewOps) = 1
             /\ NewOps[1].fn = "read_next_block_header"
             /\ pc' # "done" =>
                   pc' = IF block_header'.type = GCode THEN "gc_data" ELSE "seek"
       /\ (pc = "seek" /\ ops[Len(ops)].at # "gc_hdr") => pos = file_size]_vars

\* two GCode blocks end the container: behind the first the header of the
\* second is read, behind the second the loop is left at the end of the file
C16_Witness ==
    /\ pc = "seek"
    /\ res = "none"
    /\ TypesOf(container) = <<FileMetadata, PrinterMetadata, PrintMetadata, GCode, GCode>>
    /\ pos = file_size
    /\ ops[Len(ops)].at \in {"gc_data", "gc_write"}
    /\ \E i \in 1..Len(ops) : ops[i].at = "gc_hdr" /\ ops[i].type = GCode

(***************************************************************************)
(* C17: when from_binary_to_ascii returns another result than Success, the *)
(* output holds the bytes written before the failing step, nothing is      *)
(* taken back and nothing is written after it; a failure of the validation *)
(* or of the read of the file header leaves the output empty.  As stated   *)
(* (C17_OutputIsBytesBeforeFailure) this does not hold for a write that    *)
(* fails after storing a part of its line; C17_OutputKeptOnFailure adds    *)
(* that part.                                                              *)
(***************************************************************************)
\* the bytes the writes of the history have stored, in order
RECURSIVE StoredBytes(_)
StoredBytes(o) ==
    IF o = <<>> THEN <<>>
    ELSE StoredBytes(Take(o, Len(o) - 1))
         \o (IF IsWrite(o[Len(o)]) THEN Take(o[Len(o)].line, o[Len(o)].n) ELSE <<>>)

Failed == pc = "done" /\ res # Success

C17_OutputIsBytesBeforeFailure ==
    Failed => out = Flatten(GoodLines)

C17_OutputKeptOnFailure ==
    /\ out = StoredBytes(ops)
    /\ out_pos = Len(out)
    /\ \A i \in 1..Len(ops) : ops[i].r # Success => i = Len(ops) /\ Failed
    /\ Failed =>
          LET last == ops[Len(ops)]
          IN  /\ IsWrite(last) =>
                    /\ last.n < Len(last.line)
                    /\ out = Flatten(GoodLines) \o Take(last.line, last.n)
              /\ ~IsWrite(last) => out = Flatten(GoodLines)
              /\ last.at \in {"validate", "header"} => out = <<>>

\* the write of the second printer-metadata line fails with all but the last
\* of its bytes stored: the output ends in the middle of that line
C17_Witness ==
    /\ Failed
    /\ res = WriteError
    /\ IsWrite(ops[Len(ops)])
    /\ ops[Len(ops)].at = "pm_write"
    /\ ops[Len(ops)].n = Len(ops[Len(ops)].line) - 1
    /\ Len(GoodLines) = 2
    /\ out = Flatten(GoodLines) \o Take(ops[Len(ops)].line, ops[Len(ops)].n)

\* the file header cannot be read: nothing is written
C17_NothingWrittenReached ==
    /\ Failed
    /\ ops[Len(ops)].at = "header"
    /\ out = <<>>

(***************************************************************************)
(* C18: trim(s) is s without its leading and its trailing spaces and tabs, *)
(* the characters between them untouched; it is empty when s is empty or   *)
(* holds spaces and tabs only; and every s[i] it evaluates has             *)
(* 0 <= i <= |s| - 1.                                                      *)
(***************************************************************************)
\* s from its first to its last character that is neither space nor tab
Stripped(s) ==
    LET inked == {i \in 1..Len(s) : s[i] # " " /\ s[i] # "\t"}
    IN  IF inked = {} THEN <<>>
        ELSE SubSeq(s, CHOOSE i \in inked : \A j \in inked : i <= j,
                       CHOOSE i \in inked : \A j \in inked : j <= i)

C18_TrimStripsBlanks ==
    pc = "done" =>
        /\ trim_view = Stripped(trim_str)
        /\ trim_reads \subseteq 0..(Len(trim_str) - 1)
        /\ trim_str = <<>> => trim_reads = {}

\* blanks on both sides and one inside
C18_Witness ==
    /\ pc = "done"
    /\ trim_str = <<" ", "G", " ", "G", "\t">>
    /\ trim_view = <<"G", " ", "G">>
    /\ trim_reads = {0, 1, 3, 4}

\* one blank alone: the only index read is 0
C18_SingleBlankReached ==
    /\ pc = "done"
    /\ trim_str = <<"\t">>
    /\ trim_view = <<>>
    /\ trim_reads = {0}

(***************************************************************************)
(* C19 is about the runs that return Success.  No run of Spec does: the    *)
(* block at the resume offset must be a PrintMetadata block, the block     *)
(* behind it a GCode block for the constrained read, and the same block a  *)
(* SlicerMetadata block after the resume.                                  *)
(***************************************************************************)
NoRunSucceeds == res # Success

(***************************************************************************)
(* C20: for every payload, the empty one and one whose last line has no    *)
(* newline included, the loop of remove_empty_lines ends with its cursors  *)
(* begin_it and end_it within the payload: neither passes data.end().      *)
(* The code does not do this: behind a last line without a newline         *)
(* "begin_it = ++end_it" moves both past data.end(), the test              *)
(* "end_it != data.end()" stays true and the loop reads on.                *)
(***************************************************************************)
C20_CursorsStayInPayload ==
    /\ begin_it <= Len(data)
    /\ end_it <= Len(data)
    /\ pc # "crashed"

\* what the code does: the cursors stay within the payloads that are empty or
\* end with a newline, and only with those does the loop return
C20_CursorsStayIfTerminated ==
    /\ Terminated(data) => (begin_it <= Len(data) /\ end_it <= Len(data) /\ pc # "crashed")
    /\ pc = "gc_write" => Terminated(data)

====
